---- MODULE Spec2Model ----
(***************************************************************************)
(* A model of utils.py of the eclipse-processing repository: the FITS      *)
(* float codec (read_fits_as_float / save_as_fits / remove_pedestal), the  *)
(* header helpers (combine_headers), the geometry functions (crop,         *)
(* crop_img, crop_inset) and the directory scan                            *)
(* (get_filepaths_per_exptime).                                            *)
(*                                                                         *)
(* Arrays are records [shape, data]: shape is the numpy shape tuple and    *)
(* data maps 0-based index tuples to pixel values.  Headers are sequences  *)
(* of <<keyword, value>> cards with distinct keywords.  Real pixel values  *)
(* are fixed-point rationals: the integer n stands for n / One.            *)
(***************************************************************************)
EXTENDS Integers, Sequences, FiniteSets, TLC

VARIABLES
    op,      \* the function called last ("init" before any call)
    img,     \* the caller's image array (the argument passed as img)
    header,  \* the caller's header object (the argument passed as header)
    args,    \* the remaining arguments of the last call and the pre-call state
    ret,     \* the value returned by the last call
    file,    \* the FITS file on disk
    loop     \* get_filepaths_per_exptime: directory listing, position, dict

vars == <<op, img, header, args, ret, file, loop>>

(***************************************************************************)
(* Bounds of the model.                                                    *)
(***************************************************************************)
MaxDim == 3        \* crop, crop_img: images are up to MaxDim x MaxDim
MaxCrops == 2      \* crop_img: number of successive crops
MaxSize == 3       \* crop: requested width and height are 1..MaxSize
FitsDim == 2       \* FITS codec: images have up to FitsDim rows and columns
MaxChan == 2       \* FITS codec: colour images have up to MaxChan channels
Den == 3           \* pixel values are multiples of 1/(Den*65535)
MaxCalls == 3      \* remove_pedestal: calls counted on one header object
InsetRows == 6     \* crop_inset: images have up to InsetRows rows
InsetCols == 5     \* crop_inset: images have up to InsetCols columns
MaxRad == 1        \* crop_inset: crop radii are 0..MaxRad
MaxScale == 2      \* crop_inset: scale is 1..MaxScale
MaxBorder == 1     \* crop_inset: border_thickness is 0..MaxBorder
MaxCards == 2      \* combine_headers: headers have up to MaxCards cards
MaxFiles == 4      \* get_filepaths_per_exptime: files in the directory

Min(a, b) == IF a < b THEN a ELSE b
Max(a, b) == IF a > b THEN a ELSE b

(***************************************************************************)
(* numpy arrays and basic slicing.                                         *)
(***************************************************************************)
\* the index tuples of an array of the given shape (2 or 3 axes)
Idx(shape) ==
    IF Len(shape) = 2
    THEN (0 .. shape[1] - 1) \X (0 .. shape[2] - 1)
    ELSE (0 .. shape[1] - 1) \X (0 .. shape[2] - 1) \X (0 .. shape[3] - 1)

\* a slice bound i of an axis of length n, as Python normalises it:
\* negative bounds count from the end, and the result is clipped to 0..n
Norm(i, n) ==
    IF i < 0 THEN Max(i + n, 0) ELSE Min(i, n)

\* the first index selected by the slice start:stop on an axis of length n
SliceLo(start, stop, n) == Norm(start, n)

\* the number of indices selected by the slice start:stop
SliceLen(start, stop, n) == Max(Norm(stop, n) - Norm(start, n), 0)

\* a[r0:r1, c0:c1] of a 2-axis array
Slice2(a, r0, r1, c0, c1) ==
    LET H == a.shape[1]
        W == a.shape[2]
        rl == SliceLo(r0, r1, H)
        cl == SliceLo(c0, c1, W)
        shape == <<SliceLen(r0, r1, H), SliceLen(c0, c1, W)>>
    IN  [shape |-> shape,
         data |-> [x \in Idx(shape) |-> a.data[<<rl + x[1], cl + x[2]>>]]]

\* a[r0:r1, c0:c1] = v for a scalar v
Fill2(a, r0, r1, c0, c1, v) ==
    LET H == a.shape[1]
        W == a.shape[2]
        rl == SliceLo(r0, r1, H)
        cl == SliceLo(c0, c1, W)
        rn == SliceLen(r0, r1, H)
        cn == SliceLen(c0, c1, W)
    IN  [shape |-> a.shape,
         data |-> [x \in Idx(a.shape) |->
                     IF /\ rl <= x[1] /\ x[1] < rl + rn
                        /\ cl <= x[2] /\ x[2] < cl + cn
                     THEN v ELSE a.data[x]]]

\* the H x W test image whose pixel (r, c) holds the distinct value r*W + c
Ramp(H, W) ==
    [shape |-> <<H, W>>,
     data |-> [x \in Idx(<<H, W>>) |-> x[1] * W + x[2]]]

(***************************************************************************)
(* astropy headers: ordered cards with distinct keywords.                  *)
(***************************************************************************)
Keys(h) == [n \in 1 .. Len(h) |-> h[n][1]]
KeySet(h) == {h[n][1] : n \in 1 .. Len(h)}
Has(h, k) == k \in KeySet(h)
Pos(h, k) == CHOOSE n \in 1 .. Len(h) : h[n][1] = k
Get(h, k) == h[Pos(h, k)][2]
\* h[k] = v: update the card in place, or append a new card
Set(h, k, v) ==
    IF Has(h, k) THEN [h EXCEPT ![Pos(h, k)] = <<k, v>>]
    ELSE Append(h, <<k, v>>)
\* del h[k]
Del(h, k) ==
    LET p == Pos(h, k)
    IN  SubSeq(h, 1, p - 1) \o SubSeq(h, p + 1, Len(h))

(***************************************************************************)
(* crop(img, x_c, y_c, w, h)                                               *)
(***************************************************************************)
crop(a, x_c, y_c, w, h) ==
    Slice2(a, y_c - h \div 2, y_c + h \div 2, x_c - w \div 2, x_c + w \div 2)

(***************************************************************************)
(* crop_img(img, left, right, top, bottom, header)                         *)
(***************************************************************************)
XKeys == {"MOON-X", "SUN-X"}
YKeys == {"MOON-Y", "SUN-Y"}

\* faulty variant used against C3: the operands of the subtraction exchanged
TranslateReversed(k, v, left, top) ==
    IF k \in YKeys THEN top - v
    ELSE IF k \in XKeys THEN left - v
    ELSE v

\* faulty variant used against C2: a Y-tagged key is shifted by the horizontal origin
TranslateSameAxis(k, v, left, top) ==
    IF k \in YKeys THEN v - left
    ELSE IF k \in XKeys THEN v - left
    ELSE v

\* the value the loop body leaves in new_header[k], v being the value read
Translate(k, v, left, top) ==
    IF k \in YKeys THEN v - top
    ELSE IF k \in XKeys THEN v - left
    ELSE v

\* for k, v in new_header.items(): the cards from position n on
RECURSIVE TranslateLoop(_, _, _, _)
TranslateLoop(h, n, left, top) ==
    IF n > Len(h) THEN h
    ELSE TranslateLoop(Set(h, h[n][1], Translate(h[n][1], h[n][2], left, top)),
                       n + 1, left, top)

\* the result of crop_img: the returned pair and the caller's header after the
\* call; given is "header is not None"
crop_img(a, left, right, top, bottom, hdr, given) ==
    LET new_img == Slice2(a, top, bottom + 1, left, right + 1)
        copied == hdr
        sized == Set(Set(copied, "NAXIS1", a.shape[2]), "NAXIS2", a.shape[1])
    IN  IF given
        THEN [new_img |-> new_img,
              new_header |-> TranslateLoop(sized, 1, left, top),
              given |-> TRUE,
              header |-> hdr]
        ELSE [new_img |-> new_img, new_header |-> <<>>, given |-> FALSE,
              header |-> hdr]

\* the headers the geometry functions are called with
Hdr(nax, moon, sun, H, W) ==
    (IF nax THEN << <<"NAXIS1", W>>, <<"NAXIS2", H>> >> ELSE <<>>)
    \o << <<"EXPTIME", 10>> >>
    \o (IF moon THEN << <<"MOON-X", 120>>, <<"MOON-Y", 80>> >> ELSE <<>>)
    \o (IF sun THEN << <<"SUN-Y", 7>>, <<"SUN-X", 5>> >> ELSE <<>>)

NoArgs == [n |-> 0]
NoRet == [given |-> FALSE]
NoFile == [exists |-> FALSE]
NoLoop == [pc |-> "none"]

InitCropImg ==
    /\ op = "init"
    /\ \E H \in 1 .. MaxDim, W \in 1 .. MaxDim :
        /\ img = Ramp(H, W)
        /\ \E nax \in BOOLEAN, moon \in BOOLEAN, sun \in BOOLEAN :
              header = Hdr(nax, moon, sun, H, W)
    /\ args = NoArgs
    /\ ret = NoRet
    /\ file = NoFile
    /\ loop = NoLoop

\* the first call, on the caller's image and header
CropImgFirst ==
    /\ op = "init"
    /\ \E left \in 0 .. img.shape[2] - 1, right \in 0 .. img.shape[2] - 1,
          top \in 0 .. img.shape[1] - 1, bottom \in 0 .. img.shape[1] - 1,
          given \in BOOLEAN :
        LET r == crop_img(img, left, right, top, bottom, header, given)
        IN  /\ ret' = r
            /\ header' = r.header
            /\ args' = [n |-> 1, left |-> left, right |-> right, top |-> top,
                        bottom |-> bottom, img |-> img, header |-> header,
                        img0 |-> img, header0 |-> header,
                        left0 |-> left, right0 |-> right,
                        top0 |-> top, bottom0 |-> bottom]
    /\ op' = "crop_img"
    /\ UNCHANGED <<img, file, loop>>

\* a further call, on the image and header the previous call returned
CropImgNext ==
    /\ op = "crop_img"
    /\ args.n < MaxCrops
    /\ ret.given
    /\ \E left \in 0 .. ret.new_img.shape[2] - 1,
          right \in 0 .. ret.new_img.shape[2] - 1,
          top \in 0 .. ret.new_img.shape[1] - 1,
          bottom \in 0 .. ret.new_img.shape[1] - 1 :
        LET r == crop_img(ret.new_img, left, right, top, bottom,
                          ret.new_header, TRUE)
        IN  /\ left <= right /\ top <= bottom
            /\ ret' = r
            /\ img' = ret.new_img
            /\ header' = r.header
            /\ args' = [args EXCEPT !.n = @ + 1,
                          !.left = left, !.right = right,
                          !.top = top, !.bottom = bottom,
                          !.img = ret.new_img, !.header = ret.new_header,
                          !.left0 = args.left0 + left,
                          !.right0 = args.left0 + right,
                          !.top0 = args.top0 + top,
                          !.bottom0 = args.top0 + bottom]
    /\ UNCHANGED <<op, file, loop>>

NextCropImg == CropImgFirst \/ CropImgNext

SpecCropImg == InitCropImg /\ [][NextCropImg]_vars

\* the rectangle left..right x top..bottom lies inside the array a
Inside(a, left, right, top, bottom) ==
    /\ 0 <= left /\ right <= a.shape[2] - 1
    /\ 0 <= top /\ bottom <= a.shape[1] - 1

\* C1: crop_img called with a header and a rectangle left<right, top<bottom
\* inside the image returns a header whose NAXIS1 is right-left+1 and whose
\* NAXIS2 is bottom-top+1, the dimensions of the returned array.
C1_NaxisOfCrop ==
    (/\ op = "crop_img" /\ ret.given
     /\ args.left < args.right /\ args.top < args.bottom
     /\ Inside(args.img, args.left, args.right, args.top, args.bottom))
    => /\ Get(ret.new_header, "NAXIS1") = args.right - args.left + 1
       /\ Get(ret.new_header, "NAXIS2") = args.bottom - args.top + 1
       /\ Get(ret.new_header, "NAXIS1") = ret.new_img.shape[2]
       /\ Get(ret.new_header, "NAXIS2") = ret.new_img.shape[1]

\* C2: crop_img called with a header returns a header in which every X-tagged
\* feature key holds its input value minus left, every Y-tagged one its input
\* value minus top, every key other than these and NAXIS1/NAXIS2 its input
\* value; the header passed in is unchanged.
C2_Translation ==
    (op = "crop_img" /\ ret.given)
    => /\ \A k \in KeySet(args.header) :
            /\ Has(ret.new_header, k)
            /\ k \in XKeys =>
                 Get(ret.new_header, k) = Get(args.header, k) - args.left
            /\ k \in YKeys =>
                 Get(ret.new_header, k) = Get(args.header, k) - args.top
            /\ k \notin XKeys \cup YKeys \cup {"NAXIS1", "NAXIS2"} =>
                 Get(ret.new_header, k) = Get(args.header, k)
       /\ KeySet(ret.new_header) = KeySet(args.header) \cup {"NAXIS1", "NAXIS2"}
       /\ header = args.header

C2_Witness ==
    /\ op = "crop_img" /\ ret.given
    /\ args.left > 0 /\ args.top > 0 /\ args.left # args.top
    /\ Has(args.header, "MOON-X") /\ Has(args.header, "SUN-Y")
    /\ Has(args.header, "EXPTIME")

\* C3: cropping at (left1, top1) and cropping the result at (left2, top2)
\* gives the feature coordinates of one crop at (left1+left2, top1+top2).
C3_Composition ==
    (op = "crop_img" /\ ret.given /\ args.n = 2)
    => LET once == crop_img(args.img0, args.left0, args.right0, args.top0,
                            args.bottom0, args.header0, TRUE)
       IN  \A k \in (XKeys \cup YKeys) \cap KeySet(args.header0) :
              Get(ret.new_header, k) = Get(once.new_header, k)

C3_Witness ==
    /\ op = "crop_img" /\ ret.given /\ args.n = 2
    /\ args.left > 0 /\ args.top > 0
    /\ args.left0 > args.left /\ args.top0 > args.top
    /\ Has(args.header0, "MOON-X") /\ Has(args.header0, "SUN-Y")

(***************************************************************************)
(* crop: one call with a centre and a size                                 *)
(***************************************************************************)
InitCrop ==
    /\ op = "init"
    /\ \E H \in 1 .. MaxDim, W \in 1 .. MaxDim : img = Ramp(H, W)
    /\ header = <<>>
    /\ args = NoArgs
    /\ ret = NoRet
    /\ file = NoFile
    /\ loop = NoLoop

Crop ==
    /\ op = "init"
    /\ \E x_c \in 0 .. img.shape[2], y_c \in 0 .. img.shape[1],
          w \in 1 .. MaxSize, h \in 1 .. MaxSize :
        /\ ret' = [new_img |-> crop(img, x_c, y_c, w, h), given |-> FALSE]
        /\ args' = [n |-> 1, x_c |-> x_c, y_c |-> y_c, w |-> w, h |-> h]
    /\ op' = "crop"
    /\ UNCHANGED <<img, header, file, loop>>

NextCrop == Crop

SpecCrop == InitCrop /\ [][NextCrop]_vars

\* C6: for every centre and every width and height, even or odd, such that
\* the requested rectangle lies inside the image, crop returns height rows
\* and width columns, the rectangle that starts height div 2 rows above and
\* width div 2 columns left of the centre.
C6_CropSize ==
    (/\ op = "crop"
     /\ 0 <= args.y_c - args.h \div 2
     /\ args.y_c - args.h \div 2 + args.h <= img.shape[1]
     /\ 0 <= args.x_c - args.w \div 2
     /\ args.x_c - args.w \div 2 + args.w <= img.shape[2])
    => /\ ret.new_img.shape = <<args.h, args.w>>
       /\ \A x \in Idx(ret.new_img.shape) :
             ret.new_img.data[x] =
                img.data[<<args.y_c - args.h \div 2 + x[1],
                           args.x_c - args.w \div 2 + x[2]>>]

(***************************************************************************)
(* The FITS float codec: save_as_fits, read_fits_as_float, remove_pedestal *)
(***************************************************************************)
Full == 65535
\* the fixed-point representation of the real number 1
One == Den * Full

Clip(x, lo, hi) == IF x < lo THEN lo ELSE IF x > hi THEN hi ELSE x

\* the fixed-point representation of 1/65535, one step of the uint16 scale
Quantum == One \div Full

\* (np.clip(x, 0, 1) * 65535).astype('uint16') of one pixel: x * 65535 is
\* x / Quantum, and astype truncates it
ToUint16(x) == (Clip(x, 0, One) \div Quantum) % 65536

\* x.astype('float') / 65535 of one uint16 pixel
ToFloat(q) == q * Quantum

\* faulty variant used against C4: np.swapaxes(a, 2, 0), H x W x C becomes C x W x H
SwapAxes20(a) ==
    LET shape == <<a.shape[3], a.shape[2], a.shape[1]>>
    IN  [shape |-> shape,
         data |-> [x \in Idx(shape) |-> a.data[<<x[3], x[2], x[1]>>]]]

\* np.moveaxis(a, 2, 0): H x W x C becomes C x H x W
MoveAxis20(a) ==
    LET shape == <<a.shape[3], a.shape[1], a.shape[2]>>
    IN  [shape |-> shape,
         data |-> [x \in Idx(shape) |-> a.data[<<x[2], x[3], x[1]>>]]]

\* np.moveaxis(a, 0, 2): C x H x W becomes H x W x C
MoveAxis02(a) ==
    LET shape == <<a.shape[2], a.shape[3], a.shape[1]>>
    IN  [shape |-> shape,
         data |-> [x \in Idx(shape) |-> a.data[<<x[3], x[1], x[2]>>]]]

\* the file save_as_fits writes; src and conv record the call's arguments
save_as_fits(a, hdr, convert_to_uint16) ==
    LET conv == IF convert_to_uint16
                THEN [shape |-> a.shape,
                      data |-> [x \in Idx(a.shape) |-> ToUint16(a.data[x])]]
                ELSE a
        moved == IF Len(conv.shape) = 3 THEN MoveAxis20(conv) ELSE conv
    IN  [exists |-> TRUE,
         dtype |-> IF convert_to_uint16 THEN "uint16" ELSE "float",
         data |-> moved,
         header |-> hdr,
         saved |-> TRUE, src |-> a, conv |-> convert_to_uint16]

\* what read_fits_as_float returns for the file f, or the TypeError it raises
read_fits_as_float(f) ==
    IF f.dtype \notin {"uint16", "float"}
    THEN [err |-> "TypeError"]
    ELSE LET floated ==
                IF f.dtype = "uint16"
                THEN [shape |-> f.data.shape,
                      data |-> [x \in Idx(f.data.shape) |->
                                  ToFloat(f.data.data[x])]]
                ELSE f.data
             moved == IF Len(floated.shape) = 3 THEN MoveAxis02(floated)
                      ELSE floated
         IN  [err |-> "none", img |-> moved, header |-> f.header]

\* faulty variant used against C5: the PEDESTAL card is left in the header
RemovePedestalKeepsKey(a, hdr) ==
    IF Has(hdr, "PEDESTAL")
    THEN LET ped == Get(hdr, "PEDESTAL") * Quantum
         IN  [img |-> [shape |-> a.shape,
                       data |-> [x \in Idx(a.shape) |->
                                   Max(a.data[x] - ped, 0)]],
              header |-> hdr]
    ELSE [img |-> a, header |-> hdr]

\* the image remove_pedestal returns and the caller's header after the call
remove_pedestal(a, hdr) ==
    IF Has(hdr, "PEDESTAL")
    THEN LET ped == Get(hdr, "PEDESTAL") * Quantum
         IN  [img |-> [shape |-> a.shape,
                       data |-> [x \in Idx(a.shape) |->
                                   Max(a.data[x] - ped, 0)]],
              header |-> Del(hdr, "PEDESTAL")]
    ELSE [img |-> a, header |-> hdr]

\* pixel values: 0, below one quantum, mid scale off the grid, just below 1,
\* 1, above 1, below 0
PixVals ==
    <<0, 1, Den * 32767 + (Den - 1), One - 1, One, One + Den, 0 - 1>>

\* the position of index tuple x in row-major order
Lin(shape, x) ==
    IF Len(shape) = 2 THEN x[1] * shape[2] + x[2]
    ELSE (x[1] * shape[2] + x[2]) * shape[3] + x[3]

\* the float image of the given shape that cycles through PixVals from seed
Image(shape, seed) ==
    [shape |-> shape,
     data |-> [x \in Idx(shape) |->
                 PixVals[((seed + Lin(shape, x)) % Len(PixVals)) + 1]]]

FitsShapes ==
    {<<H, W>> : H \in 1 .. FitsDim, W \in 1 .. FitsDim}
    \cup {<<H, W, C>> : H \in 1 .. FitsDim, W \in 1 .. FitsDim,
                        C \in 1 .. MaxChan}

FitsHeaders ==
    { << <<"EXPTIME", 10>> >>,
      << <<"PEDESTAL", 655>>, <<"EXPTIME", 10>> >>,
      << <<"EXPTIME", 30>>, <<"PEDESTAL", 32768>> >> }

\* a file written by another program, with 32-bit integer samples
ForeignFile ==
    [exists |-> TRUE, dtype |-> "int32", data |-> Ramp(1, 1),
     header |-> <<>>, saved |-> FALSE, src |-> Ramp(1, 1), conv |-> FALSE]

InitFits ==
    /\ op = "init"
    /\ \E shape \in FitsShapes, seed \in 0 .. Len(PixVals) - 1 :
          img = Image(shape, seed)
    /\ header \in FitsHeaders
    /\ args = [n |-> 0, img |-> img, header |-> header]
    /\ ret = NoRet
    /\ file \in {NoFile, ForeignFile}
    /\ loop = NoLoop

Save ==
    /\ \E convert_to_uint16 \in BOOLEAN :
          file' = save_as_fits(img, header, convert_to_uint16)
    /\ op' = "save_as_fits"
    /\ UNCHANGED <<img, header, args, ret, loop>>

\* img, header = read_fits_as_float(filepath): a new image and header object
Read ==
    /\ file.exists
    /\ read_fits_as_float(file).err = "none"
    /\ img' = read_fits_as_float(file).img
    /\ header' = read_fits_as_float(file).header
    /\ args' = [n |-> 0, img |-> img, header |-> header]
    /\ op' = "read_fits_as_float"
    /\ UNCHANGED <<ret, file, loop>>

ReadTypeError ==
    /\ file.exists
    /\ read_fits_as_float(file).err = "TypeError"
    /\ op' = "TypeError"
    /\ UNCHANGED <<img, header, args, ret, file, loop>>

\* img = remove_pedestal(img, header)
RemovePedestal ==
    /\ op # "TypeError"
    /\ args.n < MaxCalls
    /\ img' = remove_pedestal(img, header).img
    /\ header' = remove_pedestal(img, header).header
    /\ args' = [n |-> args.n + 1, img |-> img, header |-> header]
    /\ op' = "remove_pedestal"
    /\ UNCHANGED <<ret, file, loop>>

NextFits == Save \/ Read \/ ReadTypeError \/ RemovePedestal

SpecFits == InitFits /\ [][NextFits]_vars

Abs(x) == IF x < 0 THEN 0 - x ELSE x

\* C4: for every image whose values lie in [0,1], save_as_fits followed by
\* read_fits_as_float yields an image of the same shape and axis order whose
\* elements differ from the original by less than 1/65535 with uint16
\* conversion, and the original itself with conversion disabled.
C4_RoundTrip ==
    (/\ op = "read_fits_as_float" /\ file.saved
     /\ \A x \in Idx(file.src.shape) :
           0 <= file.src.data[x] /\ file.src.data[x] <= One)
    => /\ img.shape = file.src.shape
       /\ file.conv =>
            \A x \in Idx(img.shape) :
               Abs(img.data[x] - file.src.data[x]) < Quantum
       /\ ~file.conv => img = file.src

C4_Witness ==
    /\ op = "read_fits_as_float" /\ file.saved /\ file.conv
    /\ Len(img.shape) = 3
    /\ img.shape[1] # img.shape[3]
    /\ \A x \in Idx(file.src.shape) :
          0 <= file.src.data[x] /\ file.src.data[x] <= One
    /\ \E x \in Idx(img.shape) : img.data[x] # file.src.data[x]
    /\ \E x \in Idx(img.shape) : file.src.data[x] = One

\* C5: the first remove_pedestal on a header containing PEDESTAL returns
\* every pixel as max(pixel - PEDESTAL/65535, 0) and deletes PEDESTAL from
\* the caller's header; every later call on that header returns the image
\* unchanged and leaves the header untouched.
C5_PedestalOnce ==
    (op = "remove_pedestal")
    => /\ Has(args.header, "PEDESTAL") =>
            /\ img.shape = args.img.shape
            /\ \A x \in Idx(img.shape) :
                  img.data[x] =
                     Max(args.img.data[x]
                           - Get(args.header, "PEDESTAL") * Quantum, 0)
            /\ ~Has(header, "PEDESTAL")
            /\ \A k \in KeySet(args.header) \ {"PEDESTAL"} :
                  Has(header, k) /\ Get(header, k) = Get(args.header, k)
       /\ ~Has(args.header, "PEDESTAL") =>
            img = args.img /\ header = args.header
       /\ args.n >= 2 => img = args.img /\ header = args.header

C5_Witness ==
    /\ op = "remove_pedestal" /\ args.n = 2
    /\ \E x \in Idx(img.shape) : img.data[x] > 0
    /\ Has(header, "EXPTIME")

(***************************************************************************)
(* crop_inset(img, crop_center, crop_radii, scale, border_value,           *)
(*            border_thickness)                                            *)
(***************************************************************************)
\* the value standing for border_value (np.nan); image pixels are >= 0
NaN == -1

\* faulty variant used against C8: np.tile, the whole array repeated scale times along the axis
Tile(a, scale, axis) ==
    LET shape == IF axis = 0 THEN <<a.shape[1] * scale, a.shape[2]>>
                 ELSE <<a.shape[1], a.shape[2] * scale>>
    IN  [shape |-> shape,
         data |-> [x \in Idx(shape) |->
                     IF axis = 0 THEN a.data[<<x[1] % a.shape[1], x[2]>>]
                     ELSE a.data[<<x[1], x[2] % a.shape[2]>>]]]

\* a.repeat(scale, axis): each element repeated scale times along the axis
Repeat(a, scale, axis) ==
    LET shape == IF axis = 0 THEN <<a.shape[1] * scale, a.shape[2]>>
                 ELSE <<a.shape[1], a.shape[2] * scale>>
    IN  [shape |-> shape,
         data |-> [x \in Idx(shape) |->
                     IF axis = 0 THEN a.data[<<x[1] \div scale, x[2]>>]
                     ELSE a.data[<<x[1], x[2] \div scale>>]]]

\* faulty variant used against C7: the left border strip ends one column late, inside the crop box
CropBorderOffByOne(a, i_left, i_right, j_top, j_bottom, t, v) ==
    LET b1 == Fill2(a, i_left - t, i_right + 1 + t, j_top - t, j_top + 1, v)
        b2 == Fill2(b1, i_left - t, i_right + 1 + t,
                    j_bottom + 1, j_bottom + 1 + t, v)
        b3 == Fill2(b2, i_left - t, i_left, j_top - t, j_bottom + 1 + t, v)
    IN  Fill2(b3, i_right + 1, i_right + 1 + t,
              j_top - t, j_bottom + 1 + t, v)

\* the four border strips painted around the crop box
CropBorder(a, i_left, i_right, j_top, j_bottom, t, v) ==
    LET b1 == Fill2(a, i_left - t, i_right + 1 + t, j_top - t, j_top, v)
        b2 == Fill2(b1, i_left - t, i_right + 1 + t,
                    j_bottom + 1, j_bottom + 1 + t, v)
        b3 == Fill2(b2, i_left - t, i_left, j_top - t, j_bottom + 1 + t, v)
    IN  Fill2(b3, i_right + 1, i_right + 1 + t,
              j_top - t, j_bottom + 1 + t, v)

\* numpy's rule for assigning an array of shape src into a region of shape tgt
Broadcastable(src, tgt) ==
    \A d \in 1 .. 2 : src[d] = tgt[d] \/ src[d] = 1

\* a[-ih:, -iw:] = inset, for an inset that broadcasts to the region
Paste(a, inset) ==
    LET H == a.shape[1]
        W == a.shape[2]
        ih == inset.shape[1]
        iw == inset.shape[2]
        rl == SliceLo(0 - ih, H, H)
        cl == SliceLo(0 - iw, W, W)
    IN  [shape |-> a.shape,
         data |-> [x \in Idx(a.shape) |->
                     IF x[1] >= rl /\ x[2] >= cl
                     THEN inset.data[<<IF ih = 1 THEN 0 ELSE x[1] - rl,
                                       IF iw = 1 THEN 0 ELSE x[2] - cl>>]
                     ELSE a.data[x]]]

\* the two border strips painted left of and above the pasted inset
InsetBorder(a, ih, iw, t, v) ==
    LET H == a.shape[1]
        W == a.shape[2]
        b1 == Fill2(a, 0 - ih, H, 0 - iw - t, 0 - iw, v)
    IN  Fill2(b1, 0 - ih - t, 0 - ih, 0 - iw, W, v)

\* the image after crop_inset, which works in place, and the error it raises;
\* crop is a view of img, read when the inset is built
crop_inset(a, crop_center, crop_radii, scale, border_value, border_thickness) ==
    LET H == a.shape[1]
        W == a.shape[2]
        i_left == crop_center[1] - crop_radii[1]
        i_right == crop_center[1] + crop_radii[1]
        j_top == crop_center[2] - crop_radii[2]
        j_bottom == crop_center[2] + crop_radii[2]
        bordered == CropBorder(a, i_left, i_right, j_top, j_bottom,
                               border_thickness, border_value)
        cropv == Slice2(bordered, i_left, i_right + 1, j_top, j_bottom + 1)
        inset == Repeat(Repeat(cropv, scale, 0), scale, 1)
        target == <<SliceLen(0 - inset.shape[1], H, H),
                    SliceLen(0 - inset.shape[2], W, W)>>
    IN  IF ~Broadcastable(inset.shape, target)
        THEN [err |-> "ValueError", img |-> bordered]
        ELSE [err |-> "none",
              img |-> InsetBorder(Paste(bordered, inset), inset.shape[1],
                                  inset.shape[2], border_thickness,
                                  border_value)]

InitInset ==
    /\ op = "init"
    /\ \E H \in 1 .. InsetRows, W \in 1 .. InsetCols : img = Ramp(H, W)
    /\ header = <<>>
    /\ args = NoArgs
    /\ ret = NoRet
    /\ file = NoFile
    /\ loop = NoLoop

\* one call of crop_inset that returns
CropInset ==
    /\ op = "init"
    /\ \E ci \in 0 .. img.shape[1] - 1, cj \in 0 .. img.shape[2] - 1,
          ri \in 0 .. MaxRad, rj \in 0 .. MaxRad,
          scale \in 1 .. MaxScale, t \in 0 .. MaxBorder :
        LET r == crop_inset(img, <<ci, cj>>, <<ri, rj>>, scale, NaN, t)
        IN  /\ r.err = "none"
            /\ img' = r.img
            /\ args' = [n |-> 1, img |-> img, crop_center |-> <<ci, cj>>,
                        crop_radii |-> <<ri, rj>>, scale |-> scale,
                        border_thickness |-> t]
    /\ op' = "crop_inset"
    /\ UNCHANGED <<header, ret, file, loop>>

\* one call of crop_inset that raises at the assignment of the inset
CropInsetValueError ==
    /\ op = "init"
    /\ \E ci \in 0 .. img.shape[1] - 1, cj \in 0 .. img.shape[2] - 1,
          ri \in 0 .. MaxRad, rj \in 0 .. MaxRad,
          scale \in 1 .. MaxScale, t \in 0 .. MaxBorder :
        LET r == crop_inset(img, <<ci, cj>>, <<ri, rj>>, scale, NaN, t)
        IN  /\ r.err = "ValueError"
            /\ img' = r.img
            /\ args' = [n |-> 1, img |-> img, crop_center |-> <<ci, cj>>,
                        crop_radii |-> <<ri, rj>>, scale |-> scale,
                        border_thickness |-> t]
    /\ op' = "ValueError"
    /\ UNCHANGED <<header, ret, file, loop>>

NextInset == CropInset \/ CropInsetValueError

SpecInset == InitInset /\ [][NextInset]_vars

\* the geometry of the last crop_inset call
ILeft == args.crop_center[1] - args.crop_radii[1]
IRight == args.crop_center[1] + args.crop_radii[1]
JTop == args.crop_center[2] - args.crop_radii[2]
JBottom == args.crop_center[2] + args.crop_radii[2]
CropBox == (ILeft .. IRight) \X (JTop .. JBottom)
\* the dimensions of the inset: crop dimensions x scale
InsetH == (2 * args.crop_radii[1] + 1) * args.scale
InsetW == (2 * args.crop_radii[2] + 1) * args.scale
\* the first row and column of the inset, flush with the bottom-right corner
InsetTop == img.shape[1] - InsetH
InsetLeft == img.shape[2] - InsetW
BoxInside == Inside(args.img, JTop, JBottom, ILeft, IRight)
BoxAndBorderInside ==
    Inside(args.img, JTop - args.border_thickness,
           JBottom + args.border_thickness,
           ILeft - args.border_thickness, IRight + args.border_thickness)
InInset(x) == x[1] >= InsetTop /\ x[2] >= InsetLeft
\* the strips painted left of and above the inset
InInsetBorder(x) ==
    \/ /\ x[1] >= InsetTop
       /\ InsetLeft - args.border_thickness <= x[2] /\ x[2] < InsetLeft
    \/ /\ InsetTop - args.border_thickness <= x[1] /\ x[1] < InsetTop
       /\ x[2] >= InsetLeft
CropBoxIntact == \A x \in CropBox : img.data[x] = args.img.data[x]

\* C7 as stated: whenever the crop box plus its border lies inside the image
\* and the inset rectangle is disjoint from the crop box, every pixel inside
\* the crop box has the same value after crop_inset as before it.
C7_Original ==
    (/\ op = "crop_inset" /\ BoxAndBorderInside
     /\ \A x \in CropBox : ~InInset(x))
    => CropBoxIntact

\* C7 amended: whenever the crop box plus its border lies inside the image
\* and the inset rectangle together with the border strips painted left of
\* and above it is disjoint from the crop box, every pixel inside the crop
\* box has the same value after crop_inset as before it.
C7_SourceIntact ==
    (/\ op \in {"crop_inset", "ValueError"} /\ BoxAndBorderInside
     /\ \A x \in CropBox : ~InInset(x) /\ ~InInsetBorder(x))
    => CropBoxIntact

C7_Witness ==
    /\ op = "crop_inset" /\ BoxAndBorderInside
    /\ args.border_thickness >= 1 /\ args.scale >= 2
    /\ \A x \in CropBox : ~InInset(x) /\ ~InInsetBorder(x)
    /\ \E x \in Idx(img.shape) : InInset(x) /\ img.data[x] # args.img.data[x]
    /\ \E x \in Idx(img.shape) : InInsetBorder(x) /\ img.data[x] = NaN

\* the bottom-right InsetH x InsetW block is the source crop, as it was before
\* the call, magnified by pixel replication
Magnified ==
    \A r \in 0 .. InsetH - 1, c \in 0 .. InsetW - 1 :
       img.data[<<InsetTop + r, InsetLeft + c>>] =
          args.img.data[<<ILeft + r \div args.scale, JTop + c \div args.scale>>]

\* the crop taken by the call has 2*radius+1 pixels on each axis
CropIsFull ==
    /\ SliceLen(ILeft, IRight + 1, args.img.shape[1])
          = 2 * args.crop_radii[1] + 1
    /\ SliceLen(JTop, JBottom + 1, args.img.shape[2])
          = 2 * args.crop_radii[2] + 1

\* C8 as stated: after crop_inset on an image large enough to hold the inset,
\* the crop has 2*radius+1 pixels on each axis and the bottom-right block is
\* its nearest-neighbour magnification.
C8_Original ==
    (/\ op = "crop_inset"
     /\ InsetH <= img.shape[1] /\ InsetW <= img.shape[2])
    => CropIsFull /\ Magnified

\* C8 amended: on an image large enough to hold the inset and whose crop box
\* lies inside the image, crop_inset returns, the crop has 2*radius+1 pixels
\* on each axis and the bottom-right block is its magnification.
C8_Magnified ==
    (/\ op \in {"crop_inset", "ValueError"} /\ BoxInside
     /\ InsetH <= img.shape[1] /\ InsetW <= img.shape[2])
    => op = "crop_inset" /\ CropIsFull /\ Magnified

C8_Witness ==
    /\ op = "crop_inset" /\ BoxInside
    /\ args.scale >= 2 /\ args.crop_radii[1] >= 1
    /\ \E x \in CropBox : InInset(x)

(***************************************************************************)
(* combine_headers(header1, header2)                                       *)
(***************************************************************************)
\* for k in h.keys(): kv_dict[k] = h[k], from card n on; a dict keeps the
\* position of a key that is assigned again
RECURSIVE DictUpdate(_, _, _)
DictUpdate(kv_dict, h, n) ==
    IF n > Len(h) THEN kv_dict
    ELSE DictUpdate(Set(kv_dict, h[n][1], Get(h, h[n][1])), h, n + 1)

\* faulty variant used against C9: the two loops exchanged, so that header1 overrides header2
CombineHeader1Wins(header1, header2) ==
    [header |-> DictUpdate(DictUpdate(<<>>, header2, 1), header1, 1),
     header1 |-> header1, header2 |-> header2]

\* the header combine_headers returns, and its two arguments after the call
combine_headers(header1, header2) ==
    [header |-> DictUpdate(DictUpdate(<<>>, header1, 1), header2, 1),
     header1 |-> header1, header2 |-> header2]

CardKeys == {"EXPTIME", "PEDESTAL", "GAIN"}

\* the headers of up to MaxCards cards with distinct keywords and values 1..2
RECURSIVE CardSeqs(_)
CardSeqs(n) ==
    IF n = 0 THEN {<<>>}
    ELSE LET shorter == CardSeqs(n - 1)
         IN  shorter \cup
             {Append(h, <<k, v>>) :
                h \in {g \in shorter : Len(g) = n - 1},
                k \in CardKeys, v \in 1 .. 2}

HeaderPool == {h \in CardSeqs(MaxCards) : Cardinality(KeySet(h)) = Len(h)}

InitCombine ==
    /\ op = "init"
    /\ img = Ramp(1, 1)
    /\ header \in HeaderPool
    /\ \E header2 \in HeaderPool : args = [n |-> 0, header2 |-> header2]
    /\ ret = NoRet
    /\ file = NoFile
    /\ loop = NoLoop

Combine ==
    /\ op = "init"
    /\ LET r == combine_headers(header, args.header2)
       IN  /\ ret' = [given |-> TRUE, header |-> r.header]
           /\ header' = r.header1
           /\ args' = [n |-> 1, header2 |-> r.header2,
                       header1_in |-> header, header2_in |-> args.header2]
    /\ op' = "combine_headers"
    /\ UNCHANGED <<img, file, loop>>

NextCombine == Combine

SpecCombine == InitCombine /\ [][NextCombine]_vars

\* the subsequence of the keys s that are not keys of h
KeysNotIn(s, h) ==
    LET Absent(k) == ~Has(h, k)
    IN  SelectSeq(s, Absent)

\* C9: combine_headers returns a header whose key set is the union of both
\* key sets, whose value is header2's for every key of header2 and header1's
\* for every other key, and whose keys are header1's in their order followed
\* by the header2-only keys in header2's order; no input is modified.
C9_Merge ==
    (op = "combine_headers")
    => LET h1 == args.header1_in
           h2 == args.header2_in
       IN  /\ KeySet(ret.header) = KeySet(h1) \cup KeySet(h2)
           /\ \A k \in KeySet(h2) : Get(ret.header, k) = Get(h2, k)
           /\ \A k \in KeySet(h1) \ KeySet(h2) :
                 Get(ret.header, k) = Get(h1, k)
           /\ Keys(ret.header) = Keys(h1) \o KeysNotIn(Keys(h2), h1)
           /\ header = h1 /\ args.header2 = h2

C9_Witness ==
    /\ op = "combine_headers"
    /\ \E k \in KeySet(args.header1_in) \cap KeySet(args.header2_in) :
          Get(args.header1_in, k) # Get(args.header2_in, k)
    /\ KeySet(args.header2_in) \ KeySet(args.header1_in) # {}
    /\ KeySet(args.header1_in) \ KeySet(args.header2_in) # {}

(***************************************************************************)
(* get_filepaths_per_exptime(dirname)                                      *)
(*                                                                         *)
(* A file name is its sequence of parts, <<"a", ".fits">>; an EXPTIME      *)
(* value is written as its Python literal.                                 *)
(***************************************************************************)
\* filename.endswith(suffix)
EndsWith(filename, suffix) == filename[Len(filename)] = suffix

\* os.path.join(dirpath, filename)
PathJoin(dirpath, filename) == <<dirpath>> \o filename

\* str(v) of a header value: the int 10, the float 10.0, the string '10'
Str(v) ==
    CASE v = "10" -> "10"
      [] v = "10.0" -> "10.0"
      [] v = "'10'" -> "10"
      [] v = "30" -> "30"

\* faulty variant used against C10: a key seen again gets a new list holding only the new path
DictAddOverwrite(d, key, filepath) ==
    IF Has(d, key) THEN Set(d, key, <<filepath>>)
    ELSE Set(d, key, <<filepath>>)

\* the dict after the if/else on the key of one file
DictAdd(d, key, filepath) ==
    IF Has(d, key) THEN Set(d, key, Append(Get(d, key), filepath))
    ELSE Set(d, key, <<filepath>>)

FileNames ==
    {<<"a", ".fits">>, <<"b", ".fits">>, <<"c", ".fits">>, <<"notes", ".txt">>,
     <<"d", ".fits", ".bak">>}

\* the header of a file in the directory: with or without an EXPTIME card
FileHeaders(filename) ==
    IF EndsWith(filename, ".fits")
    THEN {<<>>} \cup {<< <<"EXPTIME", v>> >> : v \in {"10", "10.0", "'10'", "30"}}
    ELSE {<<>>}

\* the directory listings of up to n distinct files, in any order
RECURSIVE Listings(_)
Listings(n) ==
    IF n = 0 THEN {<<>>}
    ELSE LET shorter == Listings(n - 1)
             Names(l) == {l[p].name : p \in 1 .. Len(l)}
             Longer(l) ==
                UNION {{Append(l, [name |-> f, header |-> h]) :
                          h \in FileHeaders(f)} : f \in FileNames \ Names(l)}
         IN  shorter \cup
             UNION {Longer(l) : l \in {g \in shorter : Len(g) = n - 1}}

InitDisc ==
    /\ op = "init"
    /\ img = Ramp(1, 1)
    /\ header = <<>>
    /\ args = NoArgs
    /\ ret = NoRet
    /\ file = NoFile
    /\ \E l \in Listings(MaxFiles) :
          loop = [pc |-> "loop", dirpath |-> "dir", files |-> l, i |-> 1,
                  filepaths_per_exptime |-> <<>>]

\* the file the loop is at
Cur == loop.files[loop.i]

\* a file whose name does not end with '.fits' is passed over
LoopSkip ==
    /\ loop.pc = "loop" /\ loop.i <= Len(loop.files)
    /\ ~EndsWith(Cur.name, ".fits")
    /\ loop' = [loop EXCEPT !.i = @ + 1]
    /\ UNCHANGED <<op, img, header, args, ret, file>>

\* header["EXPTIME"] of a header without the card raises KeyError
LoopKeyError ==
    /\ loop.pc = "loop" /\ loop.i <= Len(loop.files)
    /\ EndsWith(Cur.name, ".fits")
    /\ ~Has(Cur.header, "EXPTIME")
    /\ loop' = [loop EXCEPT !.pc = "KeyError"]
    /\ op' = "KeyError"
    /\ UNCHANGED <<img, header, args, ret, file>>

\* the key is in the dict: the path is appended to its list
LoopAppend ==
    /\ loop.pc = "loop" /\ loop.i <= Len(loop.files)
    /\ EndsWith(Cur.name, ".fits")
    /\ Has(Cur.header, "EXPTIME")
    /\ Has(loop.filepaths_per_exptime, Str(Get(Cur.header, "EXPTIME")))
    /\ loop' = [loop EXCEPT
                  !.i = @ + 1,
                  !.filepaths_per_exptime =
                     DictAdd(@, Str(Get(Cur.header, "EXPTIME")),
                             PathJoin(loop.dirpath, Cur.name))]
    /\ UNCHANGED <<op, img, header, args, ret, file>>

\* the key is new: it gets a list holding the path
LoopNewKey ==
    /\ loop.pc = "loop" /\ loop.i <= Len(loop.files)
    /\ EndsWith(Cur.name, ".fits")
    /\ Has(Cur.header, "EXPTIME")
    /\ ~Has(loop.filepaths_per_exptime, Str(Get(Cur.header, "EXPTIME")))
    /\ loop' = [loop EXCEPT
                  !.i = @ + 1,
                  !.filepaths_per_exptime =
                     DictAdd(@, Str(Get(Cur.header, "EXPTIME")),
                             PathJoin(loop.dirpath, Cur.name))]
    /\ UNCHANGED <<op, img, header, args, ret, file>>

LoopReturn ==
    /\ loop.pc = "loop" /\ loop.i > Len(loop.files)
    /\ loop' = [loop EXCEPT !.pc = "done"]
    /\ ret' = [given |-> FALSE, dict |-> loop.filepaths_per_exptime]
    /\ op' = "get_filepaths_per_exptime"
    /\ UNCHANGED <<img, header, args, file>>

NextDisc == LoopSkip \/ LoopKeyError \/ LoopAppend \/ LoopNewKey \/ LoopReturn

SpecDisc == InitDisc /\ [][NextDisc]_vars

\* the positions of the directory listing whose file matches the format
Matching == {p \in 1 .. Len(loop.files) : EndsWith(loop.files[p].name, ".fits")}
KeyOf(p) == Str(Get(loop.files[p].header, "EXPTIME"))
PathOf(p) == PathJoin(loop.dirpath, loop.files[p].name)
\* the position at which the key k was first seen
FirstSeen(k) == CHOOSE p \in Matching : KeyOf(p) = k /\ \A q \in Matching : KeyOf(q) = k => p <= q
\* where path occurs in the returned dict: <<key position, list position>>
Occurrences(path) ==
    {<<a, b>> \in (1 .. Len(ret.dict)) \X (1 .. MaxFiles + 1) :
        b <= Len(ret.dict[a][2]) /\ ret.dict[a][2][b] = path}

\* C10: every format-matching file's path appears exactly once, in the list
\* of the key str(EXPTIME) of that file; keys are in the order their first
\* file was seen and paths within a key in the order they were seen; files
\* that do not match the format appear in no list.
C10_Partition ==
    (op = "get_filepaths_per_exptime")
    => /\ \A p \in Matching :
            /\ Cardinality(Occurrences(PathOf(p))) = 1
            /\ Has(ret.dict, KeyOf(p))
            /\ \E b \in 1 .. Len(Get(ret.dict, KeyOf(p))) :
                  Get(ret.dict, KeyOf(p))[b] = PathOf(p)
       /\ \A p \in (1 .. Len(loop.files)) \ Matching :
            Occurrences(PathOf(p)) = {}
       /\ \A a \in 1 .. Len(ret.dict) :
            /\ \E p \in Matching : KeyOf(p) = ret.dict[a][1]
            /\ \A b \in 1 .. Len(ret.dict) :
                  a < b => FirstSeen(ret.dict[a][1]) < FirstSeen(ret.dict[b][1])
            /\ \A b, c \in 1 .. Len(ret.dict[a][2]) :
                  b < c =>
                    \E p, q \in Matching :
                       /\ p < q
                       /\ PathOf(p) = ret.dict[a][2][b]
                       /\ PathOf(q) = ret.dict[a][2][c]

C10_Witness ==
    /\ op = "get_filepaths_per_exptime"
    /\ Len(ret.dict) = 2
    /\ Len(ret.dict[1][2]) = 2
    /\ \E p \in Matching, q \in Matching :
          /\ KeyOf(p) = KeyOf(q)
          /\ Get(loop.files[p].header, "EXPTIME")
                # Get(loop.files[q].header, "EXPTIME")
    /\ (1 .. Len(loop.files)) \ Matching # {}

====
